---- MODULE Spec2Model ----
(***************************************************************************)
(* Model of the Nimiq backend adapter: the NimiqRPC connector (construction,*)
(* initialization, chain-access operations, shutdown) and the translator    *)
(* from the node's wire shapes to the canonical block / transaction shapes. *)
(*                                                                          *)
(* Representation of Go values                                              *)
(*   uint64     a tuple of four 16-bit limbs, most significant first        *)
(*   uint32     a tuple of two 16-bit limbs, most significant first         *)
(*   int64, int a record [neg, abs] with abs a uint64 magnitude             *)
(*   big.Int    a record [neg, abs], as math/big stores it                  *)
(*   *T         "nil" results are the record [kind |-> "nil"]               *)
(*   error      a string, "nil" for the nil error                           *)
(***************************************************************************)
EXTENDS Integers, Sequences, FiniteSets, Bags, TLC

(* ------------------------------ bounds --------------------------------- *)

\* longest transaction list of a block / of the mempool the node returns
MaxTxs == 2

\* number of Shutdown calls counted
MaxShutdowns == 2

\* largest configured block_addresses_to_keep explored
MaxKeep == 101

(* ------------------------- program constants --------------------------- *)

\* the least number of block->addresses mappings kept
MinBlockAddressesToKeep == 100

(* --------------------------- fixed-width integers ---------------------- *)

LimbBase == 2^16

U64Zero == <<0, 0, 0, 0>>

\* 2^64 - u for a non-zero uint64 u: the magnitude of the negative int64
\* that shares u's bit pattern
TwosComplement(u) ==
  [i \in 1..4 |->
     LET inv == (LimbBase - 1) - u[i]
         carry == IF \A j \in (i+1)..4 : u[j] = 0 THEN 1 ELSE 0
     IN (inv + carry) % LimbBase]

\* the Go conversion int64(u) of a uint64: the bit pattern is kept, so a value
\* with its top bit set becomes negative
Int64OfUint64(u) ==
  IF u[1] >= LimbBase \div 2
    THEN [neg |-> TRUE, abs |-> TwosComplement(u)]
    ELSE [neg |-> FALSE, abs |-> u]

\* the Go conversion int(u) of a uint64 (int is 64 bits wide)
IntOfUint64(u) == Int64OfUint64(u)

\* the Go conversion uint32(x) of an int64: the low 32 bits of its
\* two's-complement bit pattern
Uint32OfInt64(x) ==
  LET bits == IF x.neg THEN TwosComplement(x.abs) ELSE x.abs
  IN <<bits[3], bits[4]>>

\* big.NewInt(x) for an int64 x
BigNewInt(x) == [neg |-> x.neg, abs |-> x.abs]

\* the decimal digit d as a string
Digit(d) == SubSeq("0123456789", d + 1, d + 1)

\* a uint32 rendered in decimal, as %v and the JSON encoder render it
RECURSIVE DecStr(_)
DecStr(n) ==
  LET qhi == n[1] \div 10
      r   == n[1] % 10
      low == r * LimbBase + n[2]
      q   == <<qhi, low \div 10>>
  IN IF q = <<0, 0>> THEN Digit(low % 10) ELSE DecStr(q) \o Digit(low % 10)

\* a string as a JSON string literal
Quote(s) == "\"" \o s \o "\""

(* ------------------------------ hex ------------------------------------ *)

HexDigit(d) == SubSeq("0123456789abcdef", d + 1, d + 1)

\* hex.EncodeToString
RECURSIVE HexEncodeToString(_)
HexEncodeToString(bytes) ==
  IF bytes = <<>> THEN ""
  ELSE HexDigit(Head(bytes) \div 16) \o HexDigit(Head(bytes) % 16)
         \o HexEncodeToString(Tail(bytes))

\* networks.MainNet.Hash, networks.TestNet.Hash, networks.DevNet.Hash: the
\* genesis hash table of the gimiq networks package, abbreviated to the
\* leading bytes (the table itself is not part of this repository)
MainNetHash == <<38, 74, 175, 138>>
TestNetHash == <<11, 160, 9, 45>>
DevNetHash == <<226, 3, 127, 200>>

(* ------------------------------ wire shapes ---------------------------- *)

\* the zero value of rpcHeader, what json.Unmarshal leaves for a null payload
ZeroRpcHeader ==
  [Number |-> [neg |-> FALSE, abs |-> U64Zero], Hash |-> "", ParentHash |-> "",
   Nonce |-> "", Difficulty |-> "", Size |-> U64Zero, Time |-> 0]

(* ------------------------------ translator ----------------------------- *)

nimHeaderToBlockHeader(block) ==
  [Hash   |-> block.Hash,
   Prev   |-> block.ParentHash,
   Height |-> Uint32OfInt64(block.Number),
   Size   |-> IntOfUint64(block.Size),
   Time   |-> block.Time]

nimTxToTx(tx) ==
  [Txid |-> tx.Hash,
   Vin  |-> << [Addresses |-> <<tx.From>>] >>,
   Vout |-> << [N |-> 0,
                ValueSat |-> BigNewInt(Int64OfUint64(tx.Value)),
                ScriptPubKey |-> [Addresses |-> <<tx.To>>]] >>]

(* ------------------------------ errors --------------------------------- *)

\* bchain.ErrBlockNotFound and bchain.ErrTxNotFound
ErrBlockNotFound == "Block not found"
ErrTxNotFound == "Tx not found"

\* errors.Annotatef(err, format, args...): the annotation, then the cause
Annotatef(err, annotation) == annotation \o ": " \o err

\* calling a method of the nil *rpc.Client
PanicNilClient == "panic: invalid memory address or nil pointer dereference"

(* ------------------------------ results -------------------------------- *)

NilRet == [kind |-> "nil"]
StringRet(s) == [kind |-> "string", s |-> s]
Uint32Ret(n) == [kind |-> "uint32", n |-> n]

\* what one handler did: the RPC calls it issued in order, the responses it
\* consumed, its return value and its error
Result(calls, resps, ret, err) ==
  [calls |-> calls, resps |-> resps, ret |-> ret, err |-> err]

\* the handler panicked inside the last call of calls
Panicked(calls, resps) == Result(calls, resps, NilRet, PanicNilClient)

Call(method, params) == [method |-> method, params |-> params]

(* ------------------------------ the node ------------------------------- *)

NodeTx(hash, value) ==
  [Hash |-> hash, From |-> "ad25610feb43d75307763d3f010822a757027429",
   FromAddress |-> "NQ15 MLJN 23YB 8FBM 61TN 7LYG 2212 LVBG 4V19",
   To |-> "824aa01033c89595479bab9d8deb3fc3a3e65e2d",
   ToAddress |-> "NQ44 G95A 041K R2AR AHUT MEEQ TCXY QEHX CPHD",
   Value |-> value, Fee |-> <<0, 0, 0, 138>>]

\* the node's transactions in the order it serves them, with values around
\* the int64 boundary: 2^63, 1, 2^64 - 1, 2^63 - 1
NodeTxSeq ==
  << NodeTx("465a63b73aa0b9b54b777be9a585ea00b367a17898",
            <<LimbBase \div 2, 0, 0, 0>>),
     NodeTx("78957b87ab5546e11e9540ce5a37ebbf93a0ebd7", <<0, 0, 0, 1>>),
     NodeTx("78957b87ab5546e11e9540ce5a37ebbf93a0ebd7",
            <<LimbBase - 1, LimbBase - 1, LimbBase - 1, LimbBase - 1>>),
     NodeTx("465a63b73aa0b9b54b777be9a585ea00b367a17898",
            <<LimbBase \div 2 - 1, LimbBase - 1, LimbBase - 1, LimbBase - 1>>) >>

NodeTxs == { NodeTxSeq[i] : i \in 1..Len(NodeTxSeq) }

\* the transaction lists of blocks: the first n transactions, n <= MaxTxs
NodeTxLists ==
  { [i \in 1..n |-> NodeTxSeq[((i - 1) % Len(NodeTxSeq)) + 1]] : n \in 0..MaxTxs }

\* hashes a node reports for its first block: a known genesis, or none
NodeGenesisHashes ==
  { HexEncodeToString(MainNetHash), HexEncodeToString(TestNetHash),
    HexEncodeToString(DevNetHash), "" }

NodeHeader(hash, number, size) ==
  [Number |-> number, Hash |-> hash,
   ParentHash |-> "983d5f7b6d5e6a0e2a8b1b6a1a6e5bd4d5b0c0a2",
   Nonce |-> "67058", Difficulty |-> "1.6986", Size |-> size,
   Time |-> 1523727000]

\* first blocks (no transactions), and a later block whose number (2^32 + 1)
\* and size (2^63) exceed the canonical header's fields
NodeGenesisHeaders ==
  { NodeHeader(h, [neg |-> FALSE, abs |-> <<0, 0, 0, 1>>], <<0, 0, 0, 404>>)
      : h \in NodeGenesisHashes }

NodeLaterHeader ==
  NodeHeader("14c91f6d6f3a0b62271e546bb09461231ab7e4d1",
             [neg |-> FALSE, abs |-> <<0, 1, 0, 1>>], <<LimbBase \div 2, 0, 0, 0>>)

\* the blocks the node answers a lookup with: the code takes whatever block
\* comes back, whichever block was asked for
NodeBlocks ==
  [head : NodeGenesisHeaders, txs : {<<>>}]
    \cup [head : {NodeLaterHeader}, txs : NodeTxLists]

NodeHeights == { <<1, 0>> }

NodeTxidLists == { [i \in 1..Len(l) |-> l[i].Hash] : l \in NodeTxLists }

\* the error of a call on an open client whose context expires, and of a
\* call on a closed client (ErrClientQuit)
RpcErrors(h) ==
  IF h = "closed" THEN { "client is closed" } ELSE { "context deadline exceeded" }

ErrorResponse(e) == [kind |-> "error", err |-> e]
NullResponse == [kind |-> "null"]
MalformedResponse == [kind |-> "malformed"]
ValueResponse(v) == [kind |-> "value", val |-> v]

\* what the node answers: a JSON null result, a result of the wrong JSON
\* shape, or a result drawn from values
Answers(values) ==
  { NullResponse, MalformedResponse } \cup { ValueResponse(v) : v \in values }

\* the outcomes of one call: a transport error or, on a client that is not
\* closed, an answer of the node (the client of a ws:// endpoint sends
\* nothing once it is closed)
Responses(h, values) ==
  { ErrorResponse(e) : e \in RpcErrors(h) }
    \cup (IF h = "closed" THEN {} ELSE Answers(values))

\* the bytes a json.RawMessage target holds after a JSON null result: the
\* transport either leaves the target untouched or stores the literal
NullRawPayloads == { "", "null" }

\* the outcomes of one call into a json.RawMessage target
RawResponses(h, values) ==
  { IF r = NullResponse THEN [kind |-> "null", raw |-> p] ELSE r
      : r \in Responses(h, values), p \in NullRawPayloads }

\* the outcomes of a call that was sent on a handle in state sent and waits
\* until the handle is in state now: what the handle gave when the call was
\* sent (the answer, or the deadline, came first) or what it gives now (a
\* Close during the wait fails the pending call)
WaitResponses(sent, now, values) ==
  Responses(sent, values) \cup Responses(now, values)

WaitRawResponses(sent, now, values) ==
  RawResponses(sent, values) \cup RawResponses(now, values)

\* the error of b.rpc.CallContext(ctx, &target, ...) for a response; a typed
\* target is decoded by the call, a json.RawMessage target takes any bytes
CallContextErr(r, target) ==
  IF r.kind = "error" THEN r.err
  ELSE IF r.kind = "malformed" /\ target # "raw"
    THEN "json: cannot unmarshal"
  ELSE "nil"

\* light blocks: what getBlockByHash / getBlockByNumber return without the
\* verbose flag (transactions as hashes)
NodeLightBlocks ==
  [head : NodeGenesisHeaders, txs : {<<>>}]
    \cup [head : {NodeLaterHeader}, txs : NodeTxidLists]

(* ------------------------------ configuration -------------------------- *)

KeepValues ==
  { -1, MinBlockAddressesToKeep - 1, MinBlockAddressesToKeep, MaxKeep }

\* configuration documents: a JSON object whose block_addresses_to_keep is
\* absent (<<>>) or given (<<k>>), or a document that is not valid JSON
ConfigDocs ==
  [valid : {TRUE}, coin_name : {"Nimiq"}, coin_shortcut : {"NIM"},
   rpc_url : {"ws://127.0.0.1:8648", "gopher://127.0.0.1"},
   rpc_timeout : {<<25>>},
   block_addresses_to_keep : {<<>>} \cup { <<k>> : k \in KeepValues }]
    \cup [valid : {FALSE}, coin_name : {""}, coin_shortcut : {""},
          rpc_url : {""}, rpc_timeout : {<<>>},
          block_addresses_to_keep : {<<>>}]

\* a JSON integer field decoded into a Go int: 0 when the key is absent
JsonInt(field) == IF field = <<>> THEN 0 ELSE field[1]

\* json.Unmarshal(config, &c)
UnmarshalConfiguration(doc) ==
  [CoinName |-> doc.coin_name, CoinShortcut |-> doc.coin_shortcut,
   RPCURL |-> doc.rpc_url, RPCTimeout |-> JsonInt(doc.rpc_timeout),
   BlockAddressesToKeep |-> JsonInt(doc.block_addresses_to_keep)]

HasPrefix(s, p) == Len(s) >= Len(p) /\ SubSeq(s, 1, Len(p)) = p

\* rpc.Dial(url) succeeds for the schemes the client knows
DialOk(url) ==
  \E scheme \in {"http://", "https://", "ws://", "wss://"} : HasPrefix(url, scheme)

\* a clamp that leaves every configured value as it is
KeepAtLeast_NoFloor(c) == c

\* "keep at least 100 mappings block->addresses to allow rollback"
KeepAtLeast(c) ==
  IF c.BlockAddressesToKeep < MinBlockAddressesToKeep
    THEN [c EXCEPT !.BlockAddressesToKeep = MinBlockAddressesToKeep]
    ELSE c

\* NewNimiqRPC: the connector's fields on success (timeout in seconds), the
\* error otherwise
NewNimiqRPC(doc) ==
  IF ~doc.valid
    THEN [ok |-> FALSE,
          err |-> Annotatef("invalid character", "Invalid configuration file")]
  ELSE
    LET c == KeepAtLeast(UnmarshalConfiguration(doc))
    IN IF ~DialOk(c.RPCURL)
         THEN [ok |-> FALSE, err |-> "no known transport for URL scheme"]
         ELSE [ok |-> TRUE, err |-> "nil", BaseChain |-> [Testnet |-> FALSE,
               Network |-> "", Parser |-> "nil"], rpc |-> "open",
               ChainConfig |-> c, timeout |-> c.RPCTimeout]

(* ------------------------------ chain access --------------------------- *)

GetBestBlockHeight(h, r) ==
  LET call == Call("blockNumber", <<>>)
      err  == CallContextErr(r, "uint32")
  IN IF h = "nil" THEN Panicked(<<call>>, <<>>)
     ELSE IF err # "nil" THEN Result(<<call>>, <<r>>, Uint32Ret(<<0, 0>>), err)
     ELSE IF r.kind = "null"
       THEN Result(<<call>>, <<r>>, Uint32Ret(<<0, 0>>), "nil")
     ELSE Result(<<call>>, <<r>>, Uint32Ret(r.val), "nil")

\* GetBestBlockHash up to the return of its GetBestBlockHeight: it returns
\* with that call's error, or goes on to the lookup with the height (res)
GetBestBlockHashHeight(h, r1) ==
  LET best == GetBestBlockHeight(h, r1)
  IN IF h = "nil"
       THEN [returns |-> TRUE, res |-> Panicked(best.calls, best.resps)]
     ELSE IF best.err # "nil"
       THEN [returns |-> TRUE,
             res |-> Result(best.calls, best.resps, StringRet(""), best.err)]
     ELSE [returns |-> FALSE, res |-> best]

\* the rest of GetBestBlockHash: the lookup of the block at headNum on the
\* handle as it is by then, after the calls and responses so far
GetBestBlockHashLookup(h, headNum, calls0, resps0, r2) ==
  LET call == Call("getBlockByNumber", <<DecStr(headNum)>>)
      err  == CallContextErr(r2, "rpcHeader")
      calls == calls0 \o <<call>>
      resps == resps0 \o <<r2>>
  IN IF err # "nil" THEN Result(calls, resps, StringRet(""), err)
     ELSE IF r2.kind = "null"
       THEN Result(calls, resps, StringRet(""), ErrBlockNotFound)
     ELSE Result(calls, resps, StringRet(r2.val.head.Hash), "nil")

GetBlockHash(h, height, r) ==
  LET call == Call("getBlockByNumber", <<DecStr(height)>>)
      err  == CallContextErr(r, "rpcHeader")
  IN IF h = "nil" THEN Panicked(<<call>>, <<>>)
     ELSE IF err # "nil" THEN Result(<<call>>, <<r>>, StringRet(""), err)
     ELSE IF r.kind = "null"
       THEN Result(<<call>>, <<r>>, StringRet(""), ErrBlockNotFound)
     ELSE Result(<<call>>, <<r>>, StringRet(r.val.head.Hash), "nil")

GetBlockHeader(h, hash, r) ==
  LET call == Call("getBlockByHash", <<Quote(hash)>>)
      err  == CallContextErr(r, "rpcHeader")
  IN IF h = "nil" THEN Panicked(<<call>>, <<>>)
     ELSE IF err # "nil" THEN Result(<<call>>, <<r>>, NilRet, err)
     ELSE IF r.kind = "null"
       THEN Result(<<call>>, <<r>>, NilRet, ErrBlockNotFound)
     ELSE Result(<<call>>, <<r>>,
                 [kind |-> "header",
                  BlockHeader |-> nimHeaderToBlockHeader(r.val.head)], "nil")

\* json.Unmarshal(raw, &v) of the payload a json.RawMessage target received:
\* "nil", or the decoder's error
RawUnmarshalErr(r) ==
  IF r.kind = "malformed" THEN "json: cannot unmarshal"
  ELSE IF r.kind = "null" /\ r.raw = "" THEN "unexpected end of JSON input"
  ELSE "nil"

\* a lookup in which a non-zero height has precedence over the hash
GetBlockCall_HeightFirst(hash, height) ==
  IF height # <<0, 0>>
    THEN Call("getBlockByNumber", <<DecStr(height), "true">>)
    ELSE Call("getBlockByHash", <<Quote(hash), "true">>)

\* the one call of GetBlock: "hash has precedence if both passed"
GetBlockCall(hash, height) ==
  IF hash # ""
    THEN Call("getBlockByHash", <<Quote(hash), "true">>)
    ELSE Call("getBlockByNumber", <<DecStr(height), "true">>)

GetBlock(h, hash, height, r) ==
  LET call == GetBlockCall(hash, height)
      err  == CallContextErr(r, "raw")
      uerr == RawUnmarshalErr(r)
      head == IF r.kind = "null" THEN ZeroRpcHeader ELSE r.val.head
      body == IF r.kind = "null" THEN <<>> ELSE r.val.txs
  IN IF h = "nil" THEN Panicked(<<call>>, <<>>)
     ELSE IF err # "nil" THEN Result(<<call>>, <<r>>, NilRet, err)
     ELSE IF uerr # "nil"
       THEN Result(<<call>>, <<r>>, NilRet,
                   Annotatef(uerr, "hash " \o hash \o ", height " \o DecStr(height)))
     ELSE Result(<<call>>, <<r>>,
                 [kind |-> "block",
                  BlockHeader |-> nimHeaderToBlockHeader(head),
                  Txs |-> [i \in 1..Len(body) |-> nimTxToTx(body[i])]], "nil")

GetBlockInfo(h, hash, r) ==
  LET call == Call("getBlockByHash", <<Quote(hash), "false">>)
      err  == CallContextErr(r, "raw")
      uerr == RawUnmarshalErr(r)
      head == IF r.kind = "null" THEN ZeroRpcHeader ELSE r.val.head
      body == IF r.kind = "null" THEN <<>> ELSE r.val.txs
  IN IF h = "nil" THEN Panicked(<<call>>, <<>>)
     ELSE IF err # "nil" THEN Result(<<call>>, <<r>>, NilRet, err)
     ELSE IF uerr # "nil"
       THEN Result(<<call>>, <<r>>, NilRet, Annotatef(uerr, "hash " \o hash))
     ELSE Result(<<call>>, <<r>>,
                 [kind |-> "blockinfo",
                  BlockHeader |-> nimHeaderToBlockHeader(head),
                  Difficulty |-> head.Difficulty, Nonce |-> head.Nonce,
                  Txids |-> body], "nil")

\* a lookup that maps a null result to a nil transaction and no error
GetTransaction_NoNilCheck(h, txid, r) ==
  LET call == Call("getTransactionByHash", <<Quote(txid)>>)
      err  == CallContextErr(r, "rpcTx")
  IN IF h = "nil" THEN Panicked(<<call>>, <<>>)
     ELSE IF err # "nil" THEN Result(<<call>>, <<r>>, NilRet, err)
     ELSE IF r.kind = "null" THEN Result(<<call>>, <<r>>, NilRet, "nil")
     ELSE Result(<<call>>, <<r>>, [kind |-> "tx", Tx |-> nimTxToTx(r.val)], "nil")

GetTransaction(h, txid, r) ==
  LET call == Call("getTransactionByHash", <<Quote(txid)>>)
      err  == CallContextErr(r, "rpcTx")
  IN IF h = "nil" THEN Panicked(<<call>>, <<>>)
     ELSE IF err # "nil" THEN Result(<<call>>, <<r>>, NilRet, err)
     ELSE IF r.kind = "null" THEN Result(<<call>>, <<r>>, NilRet, ErrTxNotFound)
     ELSE Result(<<call>>, <<r>>, [kind |-> "tx", Tx |-> nimTxToTx(r.val)], "nil")

GetMempool(h, r) ==
  LET call == Call("mempoolContent", <<"false">>)
      err  == CallContextErr(r, "strings")
  IN IF h = "nil" THEN Panicked(<<call>>, <<>>)
     ELSE IF err # "nil" THEN Result(<<call>>, <<r>>, NilRet, err)
     ELSE IF r.kind = "null" THEN Result(<<call>>, <<r>>, NilRet, "nil")
     ELSE Result(<<call>>, <<r>>, [kind |-> "strings", list |-> r.val], "nil")

SendRawTransaction(h, hex, r) ==
  LET call == Call("sendRawTransaction", <<Quote(hex)>>)
      err  == CallContextErr(r, "string")
  IN IF h = "nil" THEN Panicked(<<call>>, <<>>)
     ELSE IF err # "nil" THEN Result(<<call>>, <<r>>, StringRet(""), err)
     ELSE IF r.kind = "null" THEN Result(<<call>>, <<r>>, StringRet(""), "nil")
     ELSE Result(<<call>>, <<r>>, StringRet(r.val), "nil")

(* ------------------------------ initialization ------------------------- *)

\* a switch whose devnet case leaves the testnet flag unset
ClassifyGenesis_DevNotTest(hash) ==
  IF hash = HexEncodeToString(MainNetHash)
    THEN [known |-> TRUE, Testnet |-> FALSE, Network |-> "mainnet"]
  ELSE IF hash = HexEncodeToString(TestNetHash)
    THEN [known |-> TRUE, Testnet |-> TRUE, Network |-> "testnet"]
  ELSE IF hash = HexEncodeToString(DevNetHash)
    THEN [known |-> TRUE, Testnet |-> FALSE, Network |-> "devnet"]
  ELSE [known |-> FALSE]

\* the switch of Initialize over the genesis hash
ClassifyGenesis(hash) ==
  IF hash = HexEncodeToString(MainNetHash)
    THEN [known |-> TRUE, Testnet |-> FALSE, Network |-> "mainnet"]
  ELSE IF hash = HexEncodeToString(TestNetHash)
    THEN [known |-> TRUE, Testnet |-> TRUE, Network |-> "testnet"]
  ELSE IF hash = HexEncodeToString(DevNetHash)
    THEN [known |-> TRUE, Testnet |-> TRUE, Network |-> "devnet"]
  ELSE [known |-> FALSE]

\* Initialize up to its switch: it returns with the error of GetBlock("", 1)
\* or of an unknown genesis hash, or goes on to store the classification (net)
Initialize(h, r) ==
  LET g == GetBlock(h, "", <<0, 1>>, r)
      hash == g.ret.BlockHeader.Hash
      net == ClassifyGenesis(hash)
  IN IF g.err # "nil"
       THEN [returns |-> TRUE, res |-> Result(g.calls, g.resps, NilRet, g.err)]
     ELSE IF ~net.known
       THEN [returns |-> TRUE,
             res |-> Result(g.calls, g.resps, NilRet,
                            "Unknown network genesis " \o hash)]
     ELSE [returns |-> FALSE, res |-> Result(g.calls, g.resps, NilRet, "nil"),
           net |-> [Testnet |-> net.Testnet, Network |-> net.Network]]

(* ------------------------------ shutdown ------------------------------- *)

\* a shutdown that closes the handle without looking at it
Shutdown_NoNilCheck(h) ==
  [close |-> TRUE, err |-> IF h = "nil" THEN PanicNilClient ELSE "nil"]

\* Shutdown: whether it calls Close on the handle, and its error
Shutdown(h) == [close |-> h # "nil", err |-> "nil"]

(* ------------------------------ unsupported ---------------------------- *)

GetChainInfo == Result(<<>>, <<>>, NilRet, "not implemented")

GetTransactionForMempool(txid) ==
  Result(<<>>, <<>>, NilRet, "GetTransactionForMempool: not supported")

GetTransactionSpecific(tx) ==
  Result(<<>>, <<>>, NilRet, "GetTransactionSpecific: not supported")

EstimateFee(blocks) ==
  Result(<<>>, <<>>,
         [kind |-> "bigint", v |-> BigNewInt([neg |-> FALSE, abs |-> U64Zero])],
         "GetMempoolEntry: not supported")

EstimateSmartFee(blocks, conservative) ==
  Result(<<>>, <<>>,
         [kind |-> "bigint", v |-> BigNewInt([neg |-> FALSE, abs |-> U64Zero])],
         "EstimateSmartFee: not supported")

ResyncMempool(onNewTxAddr) ==
  Result(<<>>, <<>>, [kind |-> "int", n |-> 0], "not implemented")

GetMempoolTransactions(address) ==
  Result(<<>>, <<>>, NilRet, "GetMempoolTransactions: not supported")

GetMempoolTransactionsForAddrDesc(addrDesc) ==
  Result(<<>>, <<>>, NilRet, "GetMempoolTransactionsForAddrDesc: not supported")

GetMempoolEntry(txid) ==
  Result(<<>>, <<>>, NilRet, "GetMempoolEntry: not supported")

(* ------------------------------ accessors ------------------------------ *)

GetCoinName(ChainConfig) ==
  IF ChainConfig = <<>> THEN Panicked(<<>>, <<>>)
  ELSE Result(<<>>, <<>>, StringRet(ChainConfig[1].CoinName), "nil")

GetSubversion == Result(<<>>, <<>>, StringRet(""), "nil")

GetChainParser(BaseChain) ==
  IF BaseChain = <<>> THEN Panicked(<<>>, <<>>)
  ELSE Result(<<>>, <<>>, [kind |-> "parser", p |-> BaseChain[1].Parser], "nil")

(* ------------------------------ arguments ------------------------------ *)

ArgHashes == { "", "14c91f6d6f3a0b62271e546bb09461231ab7e4d1" }
ArgHeights == { <<0, 1>>, <<1, 0>> }
ArgTxids == { "78957b87ab5546e11e9540ce5a37ebbf93a0ebd7", "" }
ArgAddresses == { "NQ15 MLJN 23YB 8FBM 61TN 7LYG 2212 LVBG 4V19", "" }

\* the goroutines of the host that call the connector: each is outside the
\* connector, inside one call, or holds the result of a call that returned
Callers == { "sync", "api" }

(* ------------------------------ Go strings ----------------------------- *)

\* a Go string header: the data pointer (named by the literal it points to,
\* "" for nil) and the length, two words that are stored one by one
GoString(s) == [ptr |-> s, len |-> Len(s)]

(* ------------------------------ state ---------------------------------- *)

VARIABLES
  obj,         \* "none" until a connector exists, then "NimiqRPC"
  config,      \* the configuration document the connector was built from
  BaseChain,   \* the embedded *bchain.BaseChain: <<>> (nil) or <<fields>>
  rpc,         \* the *rpc.Client: "nil", "open" or "closed"
  timeout,     \* in seconds
  ChainConfig, \* the *Configuration: <<>> (nil) or <<fields>>
  closeCalls,  \* how many times Close was called on the handle
  inflight,    \* the bag of calls that are between two of their steps
  lastOp       \* the call that returned last, until its caller takes the result

vars ==
  <<obj, config, BaseChain, rpc, timeout, ChainConfig, closeCalls, inflight,
    lastOp>>

connector == <<obj, config, BaseChain, rpc, timeout, ChainConfig, closeCalls>>

\* a returned call: its arguments, the handle when it started, the calls it
\* made on the handle, the responses it consumed, its return value and error
Returned(op, args, rpcAtStart, res) ==
  [op |-> op, args |-> args, rpcAtStart |-> rpcAtStart, calls |-> res.calls,
   resps |-> res.resps, ret |-> res.ret, err |-> res.err, logged |-> <<>>,
   overlapped |-> FALSE]

Done(op, args, res) == Returned(op, args, rpc, res)

NoOp == Returned("none", <<>>, "nil", Result(<<>>, <<>>, NilRet, "nil"))

NoNet == [Testnet |-> FALSE, Network |-> ""]

\* a call between two steps: where it goes on (pc), its arguments, the
\* handle when it started and when it sent the call it waits for (sentOn),
\* the round trips it has completed, and its locals (the classification of
\* Initialize, the headNum of GetBestBlockHash); overlapped records, for an
\* Initialize, that another Initialize ran while it did
InFlight(op, pc, args, rpcAtStart, sentOn, res, net, headNum) ==
  [op |-> op, pc |-> pc, args |-> args, rpcAtStart |-> rpcAtStart,
   sentOn |-> sentOn, calls |-> res.calls, resps |-> res.resps, net |-> net,
   headNum |-> headNum, logged |-> <<>>, overlapped |-> FALSE]

\* the callers that are inside a call or hold its result
Busy == BagCardinality(inflight) + (IF lastOp.op = "none" THEN 0 ELSE 1)

Init ==
  /\ obj = "none"
  /\ config = <<>>
  /\ BaseChain = <<>>
  /\ rpc = "nil"
  /\ timeout = 0
  /\ ChainConfig = <<>>
  /\ closeCalls = 0
  /\ inflight = EmptyBag
  /\ lastOp = NoOp

(* ------------------------------ actions -------------------------------- *)

\* the caller of the call that returned last takes its result
TakeResult ==
  /\ lastOp.op # "none"
  /\ lastOp' = NoOp
  /\ UNCHANGED <<connector, inflight>>

CallNewNimiqRPC ==
  /\ obj = "none"
  /\ lastOp.op = "none"
  /\ \E doc \in ConfigDocs :
       LET n == NewNimiqRPC(doc) IN
       /\ lastOp' = Done("NewNimiqRPC", [config |-> doc],
                         Result(<<>>, <<>>, NilRet, n.err))
       /\ IF n.ok
            THEN /\ obj' = "NimiqRPC"
                 /\ config' = <<doc>>
                 /\ BaseChain' = <<[n.BaseChain EXCEPT
                                      !.Network = GoString(n.BaseChain.Network)]>>
                 /\ rpc' = n.rpc
                 /\ timeout' = n.timeout
                 /\ ChainConfig' = <<n.ChainConfig>>
                 /\ UNCHANGED closeCalls
            ELSE UNCHANGED connector
  /\ UNCHANGED inflight

\* a connector built as the struct literal &NimiqRPC{}: every field nil
NimiqRPCLiteral ==
  /\ obj = "none"
  /\ lastOp.op = "none"
  /\ obj' = "NimiqRPC"
  /\ lastOp' = Done("NimiqRPC{}", <<>>, Result(<<>>, <<>>, NilRet, "nil"))
  /\ UNCHANGED <<config, BaseChain, rpc, timeout, ChainConfig, closeCalls,
                 inflight>>

\* an operation that runs to its return and leaves the connector as it is
Operation(op, args, res) ==
  /\ obj = "NimiqRPC"
  /\ Busy < Cardinality(Callers)
  /\ lastOp.op = "none"
  /\ lastOp' = Done(op, args, res)
  /\ UNCHANGED <<connector, inflight>>

\* an operation up to its first b.rpc.CallContext: on a nil handle the call
\* panics (panicked is the outcome), on any other the call is sent and the
\* operation waits for its outcome
SendCall(op, args, panicked) ==
  /\ obj = "NimiqRPC"
  /\ Busy < Cardinality(Callers)
  /\ IF rpc = "nil"
       THEN /\ lastOp.op = "none"
            /\ lastOp' = Done(op, args, panicked)
            /\ UNCHANGED inflight
       ELSE /\ inflight' = inflight (+) SetToBag({
                 InFlight(op, "Wait", args, rpc, rpc,
                          Result(<<>>, <<>>, NilRet, "nil"), NoNet, <<0, 0>>) })
            /\ UNCHANGED lastOp
  /\ UNCHANGED connector

\* the call p was waiting for is over and p returns res
ReturnCall(p, res) ==
  /\ lastOp.op = "none"
  /\ lastOp' = Returned(p.op, p.args, p.rpcAtStart, res)
  /\ inflight' = inflight (-) SetToBag({p})
  /\ UNCHANGED connector

\* the calls of operation op that wait for the outcome of a call
Waiting(op) == { p \in BagToSet(inflight) : p.op = op /\ p.pc = "Wait" }

\* p goes on as q
GoOn(p, q) == inflight' = (inflight (-) SetToBag({p})) (+) SetToBag({q})

(* ------------------------------ lifecycle ------------------------------ *)

\* Initialize up to the call of GetBlock("", 1)
Overlapped(q) ==
  IF q.op = "Initialize" THEN [q EXCEPT !.overlapped = TRUE] ELSE q

\* Initialize up to the call of GetBlock("", 1); nothing in the code keeps
\* two calls of Initialize apart, and one that starts while another runs
\* marks both
CallInitialize ==
  IF \E q \in BagToSet(inflight) : q.op = "Initialize"
    THEN /\ obj = "NimiqRPC"
         /\ Busy < Cardinality(Callers)
         /\ inflight' = BagOfAll(Overlapped, inflight) (+) SetToBag({
                Overlapped(InFlight("Initialize", "Wait", <<>>, rpc, rpc,
                                    Result(<<>>, <<>>, NilRet, "nil"), NoNet,
                                    <<0, 0>>)) })
         /\ UNCHANGED <<connector, lastOp>>
    ELSE SendCall("Initialize", <<>>, Initialize("nil", NullResponse).res)

\* Initialize from the outcome of that call to its switch over the genesis
\* hash: the return of an error, or the classification it goes on to store
InitializeFetched ==
  \E p \in Waiting("Initialize") :
    \E r \in WaitRawResponses(p.sentOn, rpc, NodeBlocks) :
      LET i == Initialize(p.rpcAtStart, r) IN
      IF i.returns
        THEN ReturnCall(p, i.res)
        ELSE /\ GoOn(p, [p EXCEPT !.pc = "Testnet", !.calls = i.res.calls,
                                  !.resps = i.res.resps, !.net = i.net])
             /\ UNCHANGED <<connector, lastOp>>

\* the store b.Testnet = ... of an Initialize past its switch
InitializeStoreTestnet ==
  \E p \in BagToSet(inflight) :
    /\ p.op = "Initialize" /\ p.pc = "Testnet"
    /\ BaseChain' = [BaseChain EXCEPT ![1].Testnet = p.net.Testnet]
    /\ GoOn(p, [p EXCEPT !.pc = "Network"])
    /\ UNCHANGED <<obj, config, rpc, timeout, ChainConfig, closeCalls, lastOp>>

\* the first word of the store b.Network = ...: the pointer or the length,
\* in the order the build chose
InitializeStoreNetworkWord ==
  \E p \in BagToSet(inflight) :
    /\ p.op = "Initialize" /\ p.pc = "Network"
    /\ \/ /\ BaseChain' = [BaseChain EXCEPT
                             ![1].Network.ptr = GoString(p.net.Network).ptr]
          /\ GoOn(p, [p EXCEPT !.pc = "NetworkLen"])
       \/ /\ BaseChain' = [BaseChain EXCEPT
                             ![1].Network.len = GoString(p.net.Network).len]
          /\ GoOn(p, [p EXCEPT !.pc = "NetworkPtr"])
    /\ UNCHANGED <<obj, config, rpc, timeout, ChainConfig, closeCalls, lastOp>>

\* the other word of the store b.Network = ...
InitializeStoreNetwork ==
  \E p \in BagToSet(inflight) :
    /\ p.op = "Initialize" /\ p.pc \in { "NetworkPtr", "NetworkLen" }
    /\ BaseChain' =
         IF p.pc = "NetworkPtr"
           THEN [BaseChain EXCEPT
                   ![1].Network.ptr = GoString(p.net.Network).ptr]
           ELSE [BaseChain EXCEPT
                   ![1].Network.len = GoString(p.net.Network).len]
    /\ GoOn(p, [p EXCEPT !.pc = "Log"])
    /\ UNCHANGED <<obj, config, rpc, timeout, ChainConfig, closeCalls, lastOp>>

\* glog.Info("rpc: block chain ", b.Network): the read of b.Network
InitializeLog ==
  \E p \in BagToSet(inflight) :
    /\ p.op = "Initialize" /\ p.pc = "Log"
    /\ GoOn(p, [p EXCEPT !.pc = "Return", !.logged = <<BaseChain[1].Network>>])
    /\ UNCHANGED <<connector, lastOp>>

\* the return of nil
InitializeReturn ==
  \E p \in BagToSet(inflight) :
    /\ p.op = "Initialize" /\ p.pc = "Return"
    /\ lastOp.op = "none"
    /\ inflight' = inflight (-) SetToBag({p})
    /\ lastOp' = [Returned("Initialize", <<>>, p.rpcAtStart,
                            Result(p.calls, p.resps, NilRet, "nil"))
                    EXCEPT !.logged = p.logged, !.overlapped = p.overlapped]
    /\ UNCHANGED connector

CallShutdown ==
  /\ obj = "NimiqRPC"
  /\ Busy < Cardinality(Callers)
  /\ lastOp.op = "none"
  /\ closeCalls < MaxShutdowns
  /\ LET s == Shutdown(rpc) IN
       /\ rpc' = IF s.close THEN "closed" ELSE rpc
       /\ closeCalls' = IF s.close THEN closeCalls + 1 ELSE closeCalls
       /\ lastOp' = Done("Shutdown", <<>>, Result(<<>>, <<>>, NilRet, s.err))
  /\ UNCHANGED <<obj, config, BaseChain, timeout, ChainConfig, inflight>>

CallGetCoinName == Operation("GetCoinName", <<>>, GetCoinName(ChainConfig))

CallGetSubversion == Operation("GetSubversion", <<>>, GetSubversion)

CallGetChainParser == Operation("GetChainParser", <<>>, GetChainParser(BaseChain))

(* ------------------------------ chain access --------------------------- *)

CallGetBestBlockHeight ==
  SendCall("GetBestBlockHeight", <<>>, GetBestBlockHeight("nil", NullResponse))

GetBestBlockHeightReturn ==
  \E p \in Waiting("GetBestBlockHeight") :
    \E r \in WaitResponses(p.sentOn, rpc, NodeHeights) :
      ReturnCall(p, GetBestBlockHeight(p.rpcAtStart, r))

\* GetBestBlockHash up to the call of blockNumber in GetBestBlockHeight
CallGetBestBlockHash ==
  SendCall("GetBestBlockHash", <<>>,
           GetBestBlockHashHeight("nil", NullResponse).res)

\* GetBestBlockHash from the outcome of blockNumber to the return of its
\* error or to the call of getBlockByNumber on the handle as it is by then
GetBestBlockHashHeightReturn ==
  \E p \in Waiting("GetBestBlockHash") :
    \E r1 \in WaitResponses(p.sentOn, rpc, NodeHeights) :
      LET b == GetBestBlockHashHeight(p.rpcAtStart, r1) IN
      IF b.returns
        THEN ReturnCall(p, b.res)
        ELSE /\ GoOn(p, [p EXCEPT !.pc = "Lookup", !.sentOn = rpc,
                                  !.calls = b.res.calls, !.resps = b.res.resps,
                                  !.headNum = b.res.ret.n])
             /\ UNCHANGED <<connector, lastOp>>

\* GetBestBlockHash from the outcome of getBlockByNumber to its return
GetBestBlockHashLookupReturn ==
  \E p \in BagToSet(inflight) :
    /\ p.op = "GetBestBlockHash" /\ p.pc = "Lookup"
    /\ \E r2 \in WaitResponses(p.sentOn, rpc, NodeLightBlocks) :
         ReturnCall(p, GetBestBlockHashLookup(p.rpcAtStart, p.headNum, p.calls,
                                              p.resps, r2))

CallGetBlockHash ==
  \E height \in ArgHeights :
    SendCall("GetBlockHash", [height |-> height],
             GetBlockHash("nil", height, NullResponse))

GetBlockHashReturn ==
  \E p \in Waiting("GetBlockHash") :
    \E r \in WaitResponses(p.sentOn, rpc, NodeLightBlocks) :
      ReturnCall(p, GetBlockHash(p.rpcAtStart, p.args.height, r))

CallGetBlockHeader ==
  \E hash \in ArgHashes \ { "" } :
    SendCall("GetBlockHeader", [hash |-> hash],
             GetBlockHeader("nil", hash, NullResponse))

GetBlockHeaderReturn ==
  \E p \in Waiting("GetBlockHeader") :
    \E r \in WaitResponses(p.sentOn, rpc, NodeLightBlocks) :
      ReturnCall(p, GetBlockHeader(p.rpcAtStart, p.args.hash, r))

CallGetBlock ==
  \E hash \in ArgHashes, height \in ArgHeights :
    SendCall("GetBlock", [hash |-> hash, height |-> height],
             GetBlock("nil", hash, height, NullResponse))

GetBlockReturn ==
  \E p \in Waiting("GetBlock") :
    \E r \in WaitRawResponses(p.sentOn, rpc, NodeBlocks) :
      ReturnCall(p, GetBlock(p.rpcAtStart, p.args.hash, p.args.height, r))

CallGetBlockInfo ==
  \E hash \in ArgHashes \ { "" } :
    SendCall("GetBlockInfo", [hash |-> hash],
             GetBlockInfo("nil", hash, NullResponse))

GetBlockInfoReturn ==
  \E p \in Waiting("GetBlockInfo") :
    \E r \in WaitRawResponses(p.sentOn, rpc, NodeLightBlocks) :
      ReturnCall(p, GetBlockInfo(p.rpcAtStart, p.args.hash, r))

CallGetTransaction ==
  \E txid \in ArgTxids \ { "" } :
    SendCall("GetTransaction", [txid |-> txid],
             GetTransaction("nil", txid, NullResponse))

GetTransactionReturn ==
  \E p \in Waiting("GetTransaction") :
    \E r \in WaitResponses(p.sentOn, rpc, NodeTxs) :
      ReturnCall(p, GetTransaction(p.rpcAtStart, p.args.txid, r))

CallGetMempool ==
  SendCall("GetMempool", <<>>, GetMempool("nil", NullResponse))

GetMempoolReturn ==
  \E p \in Waiting("GetMempool") :
    \E r \in WaitResponses(p.sentOn, rpc, NodeTxidLists) :
      ReturnCall(p, GetMempool(p.rpcAtStart, r))

CallSendRawTransaction ==
  \E hex \in { "00ad25610f" } :
    SendCall("SendRawTransaction", [hex |-> hex],
             SendRawTransaction("nil", hex, NullResponse))

SendRawTransactionReturn ==
  \E p \in Waiting("SendRawTransaction") :
    \E r \in WaitResponses(p.sentOn, rpc, { t.Hash : t \in NodeTxs }) :
      ReturnCall(p, SendRawTransaction(p.rpcAtStart, p.args.hex, r))

(* ------------------------------ unsupported ---------------------------- *)

CallGetChainInfo == Operation("GetChainInfo", <<>>, GetChainInfo)

CallGetTransactionForMempool ==
  \E txid \in ArgTxids :
    Operation("GetTransactionForMempool", [txid |-> txid],
              GetTransactionForMempool(txid))

CallGetTransactionSpecific ==
  \E tx \in { <<>>, <<nimTxToTx(NodeTxSeq[1])>> } :
    Operation("GetTransactionSpecific", [tx |-> tx], GetTransactionSpecific(tx))

CallEstimateFee ==
  \E blocks \in { 1, 6 } :
    Operation("EstimateFee", [blocks |-> blocks], EstimateFee(blocks))

CallEstimateSmartFee ==
  \E blocks \in { 1, 6 }, conservative \in BOOLEAN :
    Operation("EstimateSmartFee",
              [blocks |-> blocks, conservative |-> conservative],
              EstimateSmartFee(blocks, conservative))

CallResyncMempool ==
  \E onNewTxAddr \in { "nil", "func" } :
    Operation("ResyncMempool", [onNewTxAddr |-> onNewTxAddr],
              ResyncMempool(onNewTxAddr))

CallGetMempoolTransactions ==
  \E address \in ArgAddresses :
    Operation("GetMempoolTransactions", [address |-> address],
              GetMempoolTransactions(address))

CallGetMempoolTransactionsForAddrDesc ==
  \E addrDesc \in { <<>>, <<173, 37, 97, 15>> } :
    Operation("GetMempoolTransactionsForAddrDesc", [addrDesc |-> addrDesc],
              GetMempoolTransactionsForAddrDesc(addrDesc))

CallGetMempoolEntry ==
  \E txid \in ArgTxids :
    Operation("GetMempoolEntry", [txid |-> txid], GetMempoolEntry(txid))

(* ------------------------------ specification -------------------------- *)

Next ==
  \/ TakeResult
  \/ CallNewNimiqRPC
  \/ NimiqRPCLiteral
  \/ CallInitialize
  \/ InitializeFetched
  \/ InitializeStoreTestnet
  \/ InitializeStoreNetworkWord
  \/ InitializeStoreNetwork
  \/ InitializeLog
  \/ InitializeReturn
  \/ CallShutdown
  \/ CallGetCoinName
  \/ CallGetSubversion
  \/ CallGetChainParser
  \/ CallGetChainInfo
  \/ CallGetBestBlockHeight
  \/ GetBestBlockHeightReturn
  \/ CallGetBestBlockHash
  \/ GetBestBlockHashHeightReturn
  \/ GetBestBlockHashLookupReturn
  \/ CallGetBlockHash
  \/ GetBlockHashReturn
  \/ CallGetBlockHeader
  \/ GetBlockHeaderReturn
  \/ CallGetBlock
  \/ GetBlockReturn
  \/ CallGetBlockInfo
  \/ GetBlockInfoReturn
  \/ CallGetTransaction
  \/ GetTransactionReturn
  \/ CallGetMempool
  \/ GetMempoolReturn
  \/ CallSendRawTransaction
  \/ SendRawTransactionReturn
  \/ CallGetTransactionForMempool
  \/ CallGetTransactionSpecific
  \/ CallEstimateFee
  \/ CallEstimateSmartFee
  \/ CallResyncMempool
  \/ CallGetMempoolTransactions
  \/ CallGetMempoolTransactionsForAddrDesc
  \/ CallGetMempoolEntry

Spec == Init /\ [][Next]_vars

(* ------------------------------ properties ----------------------------- *)

\* sub occurs in s
Contains(s, sub) ==
  \E i \in 1..(Len(s) - Len(sub) + 1) : SubSeq(s, i, i + Len(sub) - 1) = sub

\* the response to the last call the last operation issued
LastResponse == lastOp.resps[Len(lastOp.resps)]

ChainAccessOps ==
  { "GetBestBlockHeight", "GetBestBlockHash", "GetBlockHash", "GetBlockHeader",
    "GetBlock", "GetBlockInfo", "GetTransaction", "GetMempool",
    "SendRawTransaction", "Initialize" }

UnsupportedOps ==
  { "GetTransactionForMempool", "GetTransactionSpecific", "EstimateFee",
    "EstimateSmartFee", "ResyncMempool", "GetMempoolTransactions",
    "GetMempoolTransactionsForAddrDesc", "GetMempoolEntry", "GetChainInfo" }

\* C1: when the call of GetBlock or GetBlockInfo succeeds and the node's result
\* is null, the operation returns ErrBlockNotFound and no block.
C1_NullBlockIsNotFound ==
  (/\ lastOp.op \in { "GetBlock", "GetBlockInfo" }
   /\ Len(lastOp.resps) = 1
   /\ LastResponse.kind = "null")
    => (lastOp.err = ErrBlockNotFound /\ lastOp.ret.kind = "nil")

\* C2: for GetTransaction, GetBlockHeader, GetBlockHash and GetBestBlockHash a
\* null result of the lookup gives the not-found error (ErrTxNotFound for the
\* transaction, ErrBlockNotFound for the blocks) with an empty value, a
\* transport error is returned as it is with an empty value, and a nil value
\* never comes with a nil error.
C2_NullLookupIsNotFound ==
  LET isLookup == lastOp.op = "GetBestBlockHash" => Len(lastOp.resps) = 2
      notFound == IF lastOp.op = "GetTransaction"
                    THEN ErrTxNotFound ELSE ErrBlockNotFound
      empty == IF lastOp.op \in { "GetTransaction", "GetBlockHeader" }
                 THEN lastOp.ret.kind = "nil"
                 ELSE lastOp.ret.kind = "string" /\ lastOp.ret.s = ""
  IN (/\ lastOp.op \in { "GetTransaction", "GetBlockHeader", "GetBlockHash",
                         "GetBestBlockHash" }
      /\ Len(lastOp.resps) > 0)
       => /\ (LastResponse.kind = "null" /\ isLookup)
               => (lastOp.err = notFound /\ empty)
          /\ LastResponse.kind = "error"
               => (lastOp.err = LastResponse.err /\ empty)
          /\ lastOp.ret.kind = "nil" => lastOp.err # "nil"

C2_Witness ==
  /\ lastOp.op = "GetTransaction"
  /\ Len(lastOp.resps) = 1
  /\ LastResponse.kind = "null"
  /\ lastOp.err = ErrTxNotFound

\* C3: the handle of a connector is closed at most once, however many times
\* Shutdown is called.
C3_ClosedOnce == closeCalls <= 1

\* C4: an operation that starts after Shutdown closed the handle issues no
\* RPC call on it.
C4_NoCallAfterShutdown ==
  (lastOp.op \in ChainAccessOps /\ lastOp.rpcAtStart = "closed")
    => lastOp.calls = <<>>

\* C5: Shutdown returns no error whatever the state of the handle (open,
\* already closed, nil), leaves a nil handle nil and any other handle closed.
C5_ShutdownNeverFails ==
  lastOp.op = "Shutdown"
    => /\ lastOp.err = "nil"
       /\ rpc = (IF lastOp.rpcAtStart = "nil" THEN "nil" ELSE "closed")

\* a second Shutdown in a row has returned while an Initialize that fetched
\* its block has stored nothing yet
C5_Witness ==
  /\ lastOp.op = "Shutdown"
  /\ lastOp.rpcAtStart = "closed"
  /\ closeCalls = 2
  /\ BaseChain[1].Network = GoString("")
  /\ \E p \in BagToSet(inflight) : p.op = "Initialize" /\ p.pc = "Testnet"

\* C6: every unsupported operation returns a non-nil error and no result, and
\* its message is the operation's own "<operation>: not supported".
C6_UnsupportedMessage ==
  lastOp.op \in UnsupportedOps
    => /\ lastOp.err # "nil"
       /\ lastOp.ret.kind \in { "nil", "bigint", "int" }
       /\ Contains(lastOp.err, "not supported")
       /\ HasPrefix(lastOp.err, lastOp.op)

\* the network label and testnet flag of a genesis hash
GenesisLabel(hash) ==
  IF hash = "264aaf8a" THEN <<"mainnet", FALSE>>
  ELSE IF hash = "0ba0092d" THEN <<"testnet", TRUE>>
  ELSE IF hash = "e2037fc8" THEN <<"devnet", TRUE>>
  ELSE <<>>

\* the label and flag an Initialize that is past its switch, or has returned
\* nil, owes to the hash of the block it fetched
FetchedLabel(q) ==
  IF Len(q.resps) = 1 /\ q.resps[1].kind = "value"
    THEN GenesisLabel(q.resps[1].val.head.Hash)
    ELSE <<>>

InitializeCalls(bag) == { q \in BagToSet(bag) : q.op = "Initialize" }

\* C7: Initialize classifies by the hash of the block it fetched at height 1.
\* (1) Every call's classification, overlapping calls included, is the one of
\* the hash it fetched: mainnet and false, testnet and true, devnet and true;
\* its stores write exactly that, and starting a call stores nothing.
\* (2) A call that fetched one of the three genesis hashes returns no error,
\* and, when no other Initialize ran during it, the connector then has that
\* Network and Testnet. (3) For any other hash, and for a failed fetch, the
\* call returns an error and has stored nothing: Network and Testnet are as
\* they were.
C7_Classification ==
  [][
      /\ \A q \in InitializeCalls(inflight') :
          \/ q.pc = "Wait"
          \/ FetchedLabel(q) = <<q.net.Network, q.net.Testnet>>
      /\ (BaseChain # <<>> /\ BaseChain' # BaseChain)
           => \E q \in InitializeCalls(inflight) :
                /\ q.pc # "Wait"
                /\ \/ BaseChain' = [BaseChain EXCEPT
                                       ![1].Testnet = FetchedLabel(q)[2]]
                   \/ BaseChain' = [BaseChain EXCEPT
                         ![1].Network.ptr = GoString(FetchedLabel(q)[1]).ptr]
                   \/ BaseChain' = [BaseChain EXCEPT
                         ![1].Network.len = GoString(FetchedLabel(q)[1]).len]
      /\ (lastOp'.op = "Initialize" /\ lastOp.op = "none")
           => LET label == FetchedLabel(lastOp')
              IN IF label # <<>>
                   THEN /\ lastOp'.err = "nil"
                        /\ lastOp'.overlapped
                             \/ /\ BaseChain'[1].Network = GoString(label[1])
                                /\ BaseChain'[1].Testnet = label[2]
                                /\ lastOp'.logged = <<GoString(label[1])>>
                   ELSE /\ lastOp'.err # "nil"
                        /\ BaseChain' = BaseChain
    ]_vars

\* an Initialize that no other Initialize overlapped fetched the devnet
\* genesis and has returned nil, having logged the label it stored, while
\* another operation waits for the node
C7_Witness ==
  /\ lastOp.op = "Initialize"
  /\ lastOp.err = "nil"
  /\ ~lastOp.overlapped
  /\ FetchedLabel(lastOp) = <<"devnet", TRUE>>
  /\ lastOp.logged = <<GoString("devnet")>>
  /\ BaseChain[1].Network = GoString("devnet")
  /\ BaseChain[1].Testnet = TRUE
  /\ \E p \in BagToSet(inflight) : p.op = "GetBlock" /\ p.pc = "Wait"

\* C8: nimTxToTx gives the wire hash as Txid, one input with exactly the
\* sender, and one output, index 0, with exactly the recipient and a ValueSat
\* equal to the wire value, which is never negative.
C8_TxMapping ==
  (lastOp.op = "GetTransaction" /\ lastOp.err = "nil")
    => LET wire == LastResponse.val
           tx == lastOp.ret.Tx
       IN /\ tx.Txid = wire.Hash
          /\ Len(tx.Vin) = 1
          /\ tx.Vin[1].Addresses = <<wire.From>>
          /\ Len(tx.Vout) = 1
          /\ tx.Vout[1].N = 0
          /\ tx.Vout[1].ScriptPubKey.Addresses = <<wire.To>>
          /\ tx.Vout[1].ValueSat = [neg |-> FALSE, abs |-> wire.Value]

\* C9: the block_addresses_to_keep of a constructed connector is 100 when the
\* configured value is below 100 (absent counts as 0) and the configured value
\* otherwise, in every state the connector reaches.
C9_BlockAddressesToKeep ==
  ChainConfig # <<>>
    => LET field == config[1].block_addresses_to_keep
           configured == IF field = <<>> THEN 0 ELSE field[1]
       IN ChainConfig[1].BlockAddressesToKeep
            = (IF configured < 100 THEN 100 ELSE configured)

\* a connector configured with 99 keeps 100 after an Initialize has stored
\* its classification and Shutdown has closed the handle
C9_Witness ==
  /\ ChainConfig # <<>>
  /\ config[1].block_addresses_to_keep = <<99>>
  /\ ChainConfig[1].BlockAddressesToKeep = 100
  /\ lastOp.op = "Shutdown"
  /\ BaseChain[1].Network = GoString("mainnet")

\* C10: GetBlock issues exactly one call: getBlockByHash(hash, true) when the
\* hash is not empty, whatever the height, and getBlockByNumber(height, true)
\* otherwise; a transport error is returned with no block.
C10_OneLookup ==
  lastOp.op = "GetBlock"
    => LET hash == lastOp.args.hash
           height == IF lastOp.args.height = <<0, 1>> THEN "1" ELSE "65536"
       IN /\ Len(lastOp.calls) = 1
          /\ lastOp.calls[1].method
               = (IF hash = "" THEN "getBlockByNumber" ELSE "getBlockByHash")
          /\ lastOp.calls[1].params
               = (IF hash = "" THEN <<height, "true">>
                  ELSE <<"\"" \o hash \o "\"", "true">>)
          /\ (Len(lastOp.resps) = 1 /\ LastResponse.kind = "error")
               => (lastOp.ret.kind = "nil" /\ lastOp.err = LastResponse.err)

C10_Witness ==
  /\ lastOp.op = "GetBlock"
  /\ lastOp.args.hash # ""
  /\ lastOp.args.height = <<1, 0>>
  /\ lastOp.calls = << Call("getBlockByHash", <<Quote(lastOp.args.hash), "true">>) >>
  /\ lastOp.err = "nil"

====
